---- MODULE Spec2Model ----
(***************************************************************************)
(* Model of dylanwalls/ai-trader: the fundamentals scorer                  *)
(* (src/agents/fundamentals.py), the insider-trade sentiment scorer        *)
(* (src/agents/sentiment.py) and the cached fetch layer (src/tools/api.py).*)
(*                                                                         *)
(* Python values are records [t, v]: t is the Python type that decides     *)
(* truthiness and float() parsing, v the exact rational <<num, den>> a     *)
(* number (or numeric string) stands for.  Floats are modelled by exact    *)
(* rationals; the inputs are small integers and short decimals, on which   *)
(* the double comparisons of the code agree with the exact ones.           *)
(***************************************************************************)
EXTENDS Integers, Sequences, FiniteSets, TLC

VARIABLES metrics, fres, trades, sres, cache, fetched

vars == <<metrics, fres, trades, sres, cache, fetched>>

----------------------------------------------------------------------------
(* Exact rationals <<n, d>>, d > 0, in lowest terms. *)

Abs(x) == IF x < 0 THEN -x ELSE x

RECURSIVE GCD(_, _)
GCD(a, b) == IF b = 0 THEN a ELSE GCD(b, a % b)

Rat(n, d) ==
    LET s == IF d < 0 THEN -1 ELSE 1
        g == GCD(Abs(n), Abs(d))
    IN  <<(s * n) \div g, (s * d) \div g>>

RLt(a, b) == a[1] * b[2] < b[1] * a[2]
RGt(a, b) == RLt(b, a)
RMul(a, b) == Rat(a[1] * b[1], a[2] * b[2])
RDiv(a, b) == Rat(a[1] * b[2], a[2] * b[1])

----------------------------------------------------------------------------
(* Python values. *)

Zero == <<0, 1>>

\* dict key missing: metrics.get(key) / t.get(key, None) give None
Absent == [t |-> "absent", v |-> Zero]
\* Python None (JSON null)
None == [t |-> "None", v |-> Zero]
\* a non-empty string float() rejects ("abc", "None", "-")
Str == [t |-> "str", v |-> Zero]
\* the empty string: falsy, and float("") raises ValueError
EStr == [t |-> "estr", v |-> Zero]
\* a string float() parses ("0.2", "0"): truthy whatever its value
NumStr(q) == [t |-> "numstr", v |-> q]
\* an int or float
Num(q) == [t |-> "num", v |-> q]

\* bool(x), as `or`, `and` and `if` apply it
Truthy(x) ==
    CASE x.t = "None" -> FALSE
      [] x.t = "absent" -> FALSE
      [] x.t = "estr" -> FALSE
      [] x.t = "str" -> TRUE
      [] x.t = "numstr" -> TRUE
      [] x.t = "num" -> x.v[1] # 0

\* a or b
PyOr(a, b) == IF Truthy(a) THEN a ELSE b

\* metrics.get(key)
Get(m, key) == IF m[key] = Absent THEN None ELSE m[key]

\* safe_float: float(value), None on TypeError / ValueError
safe_float(value) ==
    IF value.t \in {"num", "numstr"} THEN Num(value.v) ELSE None

calculate_net_margin(revenue, net_income) ==
    LET rev == safe_float(revenue)
        ni == safe_float(net_income)
    IN  IF Truthy(rev) /\ Truthy(ni) THEN Num(RDiv(ni.v, rev.v)) ELSE None

calculate_operating_margin(operating_income, revenue) ==
    LET oi == safe_float(operating_income)
        rev == safe_float(revenue)
    IN  IF Truthy(rev) /\ Truthy(oi) THEN Num(RDiv(oi.v, rev.v)) ELSE None

\* `x and x > th` on a float-or-None x
AndGt(x, th) == Truthy(x) /\ RGt(x.v, th)
\* `x and x < th`
AndLt(x, th) == Truthy(x) /\ RLt(x.v, th)

B2N(b) == IF b THEN 1 ELSE 0

\* signals.count(s)
Count(signals, s) == Cardinality({i \in DOMAIN signals : signals[i] = s})

\* 'bullish' if score >= 2 else 'bearish' if score == 0 else 'neutral'
RubricSignal_NeutralAtZero(score) ==
    IF score >= 2 THEN "bullish" ELSE "neutral"

RubricSignal(score) ==
    IF score >= 2 THEN "bullish" ELSE IF score = 0 THEN "bearish" ELSE "neutral"

\* the if / elif / else on the two counts
Majority_BullishOnTie(bullish, bearish) ==
    IF bullish >= bearish THEN "bullish" ELSE "bearish"

Majority(bullish, bearish) ==
    IF bullish > bearish THEN "bullish"
    ELSE IF bearish > bullish THEN "bearish"
    ELSE "neutral"

\* Python 3 round() of the non-negative rational n/d: ties go to the even integer
PyRound_HalfUp(n, d) ==
    LET q == n \div d
    IN  IF 2 * (n % d) >= d THEN q + 1 ELSE q

PyRound(n, d) ==
    LET q == n \div d
        r2 == 2 * (n % d)
    IN  IF r2 > d THEN q + 1
        ELSE IF r2 < d THEN q
        ELSE IF q % 2 = 0 THEN q ELSE q + 1

\* round((max(bullish, bearish) / total) * 100)
Confidence_BullishShare(bullish, bearish, total) == PyRound(100 * bullish, total)

Confidence(bullish, bearish, total) ==
    PyRound(100 * (IF bullish > bearish THEN bullish ELSE bearish), total)

----------------------------------------------------------------------------
(* fundamentals_agent *)

Fields ==
    {"return_on_equity", "ReturnOnEquityTTM", "net_margin", "RevenueTTM",
     "net_income", "operating_margin", "operating_income",
     "revenue_growth", "QuarterlyRevenueGrowthYOY", "earnings_growth",
     "QuarterlyEarningsGrowthYOY", "book_value_growth",
     "current_ratio", "CurrentRatio", "debt_to_equity", "DebtToEquityRatio",
     "free_cash_flow_per_share", "earnings_per_share",
     "price_to_earnings_ratio", "PERatio", "price_to_book_ratio",
     "PriceToBookRatio", "price_to_sales_ratio", "PriceToSalesRatioTTM"}

\* the thresholds of the four rubrics
RoeMin == <<3, 20>>          \* 0.15
NetMarginMin == <<1, 5>>     \* 0.20
OpMarginMin == <<3, 20>>     \* 0.15
GrowthMin == <<1, 10>>       \* 0.10
CurrentRatioMin == <<3, 2>>  \* 1.5
DebtToEquityMax == <<1, 2>>  \* 0.5
FcfConversion == <<4, 5>>    \* 0.8
PeMax == <<25, 1>>
PbMax == <<3, 1>>
PsMax == <<5, 1>>

\* safe_float(metrics.get(canonical) or metrics.get(alternate))
Lookup(m, canonical, alternate) ==
    safe_float(PyOr(Get(m, canonical), Get(m, alternate)))

\* the whole of fundamentals_agent on the snapshot data["financial_metrics"][0]:
\* the values it uses, the four scores and sub-signals, the overall result
fundamentals_agent(m) ==
    LET roe == Lookup(m, "return_on_equity", "ReturnOnEquityTTM")
        net_margin ==
            PyOr(safe_float(Get(m, "net_margin")),
                 calculate_net_margin(Get(m, "RevenueTTM"), Get(m, "net_income")))
        operating_margin ==
            PyOr(safe_float(Get(m, "operating_margin")),
                 calculate_operating_margin(Get(m, "operating_income"),
                                            Get(m, "RevenueTTM")))
        profitability_score ==
            B2N(AndGt(roe, RoeMin)) + B2N(AndGt(net_margin, NetMarginMin))
            + B2N(AndGt(operating_margin, OpMarginMin))
        revenue_growth == Lookup(m, "revenue_growth", "QuarterlyRevenueGrowthYOY")
        earnings_growth == Lookup(m, "earnings_growth", "QuarterlyEarningsGrowthYOY")
        book_value_growth == safe_float(Get(m, "book_value_growth"))
        growth_score ==
            B2N(AndGt(revenue_growth, GrowthMin)) + B2N(AndGt(earnings_growth, GrowthMin))
            + B2N(AndGt(book_value_growth, GrowthMin))
        current_ratio == Lookup(m, "current_ratio", "CurrentRatio")
        debt_to_equity == Lookup(m, "debt_to_equity", "DebtToEquityRatio")
        fcf_per_share == safe_float(Get(m, "free_cash_flow_per_share"))
        eps == safe_float(Get(m, "earnings_per_share"))
        health_score ==
            B2N(AndGt(current_ratio, CurrentRatioMin))
            + B2N(AndLt(debt_to_equity, DebtToEquityMax))
            + B2N(Truthy(fcf_per_share) /\ Truthy(eps)
                  /\ RGt(fcf_per_share.v, RMul(eps.v, FcfConversion)))
        pe_ratio == Lookup(m, "price_to_earnings_ratio", "PERatio")
        pb_ratio == Lookup(m, "price_to_book_ratio", "PriceToBookRatio")
        ps_ratio == Lookup(m, "price_to_sales_ratio", "PriceToSalesRatioTTM")
        price_ratio_score ==
            B2N(AndLt(pe_ratio, PeMax)) + B2N(AndLt(pb_ratio, PbMax))
            + B2N(AndLt(ps_ratio, PsMax))
        signals ==
            <<RubricSignal(profitability_score), RubricSignal(growth_score),
              RubricSignal(health_score), RubricSignal(price_ratio_score)>>
        bullish_signals == Count(signals, "bullish")
        bearish_signals == Count(signals, "bearish")
    IN  [ran |-> TRUE,
         roe |-> roe, net_margin |-> net_margin,
         operating_margin |-> operating_margin,
         revenue_growth |-> revenue_growth, earnings_growth |-> earnings_growth,
         book_value_growth |-> book_value_growth,
         current_ratio |-> current_ratio, debt_to_equity |-> debt_to_equity,
         fcf_per_share |-> fcf_per_share, eps |-> eps,
         pe_ratio |-> pe_ratio, pb_ratio |-> pb_ratio, ps_ratio |-> ps_ratio,
         profitability_score |-> profitability_score,
         growth_score |-> growth_score,
         health_score |-> health_score,
         price_ratio_score |-> price_ratio_score,
         signals |-> signals,
         bullish_signals |-> bullish_signals,
         bearish_signals |-> bearish_signals,
         signal |-> Majority(bullish_signals, bearish_signals),
         confidence |-> Confidence(bullish_signals, bearish_signals, Len(signals))]

\* no fundamentals result yet
NoFres == [ran |-> FALSE]

----------------------------------------------------------------------------
(* The snapshots the fundamentals scorer is run on. *)

\* at most this many fields carry an unparsable value, the others are absent
MaxUnparsable == 2
\* the longest list of insider transactions of mixed kinds
MaxTrades == 4
\* the longest list of numeric insider transactions
MaxNumericTrades == 8

\* a snapshot with the fields of g set and every other field absent
Snap(g) == g @@ [f \in Fields |-> Absent]

MissingKinds == {None, Str, EStr}

RECURSIVE FieldSets(_)
FieldSets(k) ==
    IF k = 0 THEN {{}}
    ELSE LET P == FieldSets(k - 1) IN P \cup {S \cup {f} : S \in P, f \in Fields}

Q(n, d) == Rat(n, d)

\* the profitability fields, the other rubrics empty
ProfitSnapshots ==
    {Snap([return_on_equity |-> a, ReturnOnEquityTTM |-> b, net_margin |-> c,
           RevenueTTM |-> d, net_income |-> e, operating_margin |-> f,
           operating_income |-> g]) :
        a \in {Absent, Num(Q(1, 5))},
        b \in {Absent, NumStr(Q(1, 5))},
        c \in {Absent, None, Str, Num(Zero), Num(Q(1, 4))},
        d \in {Absent, None, Str, Num(Zero), NumStr(Zero), Num(Q(1000, 1)),
               NumStr(Q(1000, 1))},
        e \in {Absent, None, Str, Num(Zero), Num(Q(100, 1)), Num(Q(250, 1)),
               Num(Q(300, 1)), NumStr(Q(300, 1)), Num(Q(-300, 1))},
        f \in {Absent, Num(Zero), Num(Q(9, 50))},
        g \in {Absent, Num(Zero), Num(Q(180, 1))}}

\* the metrics read under a canonical and an alternate name
Pairs ==
    {<<"return_on_equity", "ReturnOnEquityTTM">>,
     <<"revenue_growth", "QuarterlyRevenueGrowthYOY">>,
     <<"earnings_growth", "QuarterlyEarningsGrowthYOY">>,
     <<"current_ratio", "CurrentRatio">>,
     <<"debt_to_equity", "DebtToEquityRatio">>,
     <<"price_to_earnings_ratio", "PERatio">>,
     <<"price_to_book_ratio", "PriceToBookRatio">>,
     <<"price_to_sales_ratio", "PriceToSalesRatioTTM">>}

PairValues ==
    {Absent, None, Str, EStr, Num(Zero), NumStr(Zero), Num(Q(2, 1)),
     NumStr(Q(1, 5))}

\* one metric present under either or both of its names
PairSnapshots ==
    {Snap((p[1] :> c) @@ (p[2] :> a)) : p \in Pairs, c \in PairValues, a \in PairValues}

\* the financial-health fields, the other rubrics empty
HealthSnapshots ==
    {Snap([current_ratio |-> a, CurrentRatio |-> b, debt_to_equity |-> c,
           DebtToEquityRatio |-> d, free_cash_flow_per_share |-> e,
           earnings_per_share |-> f]) :
        a \in {Absent, Str, Num(Zero), Num(Q(3, 2)), Num(Q(2, 1))},
        b \in {Absent, NumStr(Q(2, 1))},
        c \in {Absent, None, NumStr(Zero), Num(Q(3, 10)), Num(Q(1, 2))},
        d \in {Absent, NumStr(Q(3, 10))},
        e \in {Absent, Str, Num(Zero), Num(Q(1, 1)), Num(Q(-1, 1)), Num(Q(4, 5))},
        f \in {Absent, Str, NumStr(Zero), Num(Q(1, 1)), Num(Q(-1, 1)), Num(Q(-2, 1))}}

\* each of the twelve checks passing or its field absent: every score 0..3 in
\* every rubric, so every combination of the four sub-signals
AggSnapshots ==
    {Snap([return_on_equity |-> a1, net_margin |-> a2, operating_margin |-> a3,
           revenue_growth |-> b1, earnings_growth |-> b2, book_value_growth |-> b3,
           current_ratio |-> c1, debt_to_equity |-> c2,
           free_cash_flow_per_share |-> c3, earnings_per_share |-> Num(Q(1, 1)),
           price_to_earnings_ratio |-> d1, price_to_book_ratio |-> d2,
           price_to_sales_ratio |-> d3]) :
        a1 \in {Absent, Num(Q(1, 5))}, a2 \in {Absent, Num(Q(1, 4))},
        a3 \in {Absent, Num(Q(9, 50))},
        b1 \in {Absent, Num(Q(1, 5))}, b2 \in {Absent, NumStr(Q(1, 5))},
        b3 \in {Absent, Num(Q(1, 5))},
        c1 \in {Absent, Num(Q(2, 1))}, c2 \in {Absent, Num(Q(3, 10))},
        c3 \in {Absent, Num(Q(1, 1))},
        d1 \in {Absent, NumStr(Q(20, 1))}, d2 \in {Absent, Num(Q(2, 1))},
        d3 \in {Absent, Num(Q(4, 1))}}

\* no snapshot / no transaction list handed to an agent
NoMetrics == [f \in {} |-> Absent]
NoSres == [ran |-> FALSE]
NoFetch == [fn |-> "none", sentinel |-> FALSE]
EmptyCache == <<>>

InitFund ==
    /\ metrics = NoMetrics
    /\ fres = NoFres
    /\ trades = <<>>
    /\ sres = NoSres
    /\ cache = EmptyCache
    /\ fetched = NoFetch

\* fundamentals_agent(state) on metrics = data["financial_metrics"][0]
FundamentalsAgent ==
    /\ metrics # NoMetrics
    /\ fres = NoFres
    /\ fres' = fundamentals_agent(metrics)
    /\ UNCHANGED <<metrics, trades, sres, cache, fetched>>

\* fundamentals_agent called once with the snapshot m as
\* data["financial_metrics"][0]
ScoreSnapshot(m) ==
    /\ metrics' = m
    /\ fres' = fundamentals_agent(m)
    /\ UNCHANGED <<trades, sres, cache, fetched>>

\* every field missing: at most MaxUnparsable fields null or unparsable, the
\* others absent; or all fields of one missing kind
ScoreMissing ==
    /\ fres = NoFres
    /\ \/ \E S \in FieldSets(MaxUnparsable) : \E g \in [S -> MissingKinds] :
              ScoreSnapshot(Snap(g))
       \/ \E k \in MissingKinds : ScoreSnapshot([f \in Fields |-> k])

ScoreProfit == fres = NoFres /\ \E m \in ProfitSnapshots : ScoreSnapshot(m)

ScorePair == fres = NoFres /\ \E m \in PairSnapshots : ScoreSnapshot(m)

ScoreHealth == fres = NoFres /\ \E m \in HealthSnapshots : ScoreSnapshot(m)

ScoreAgg == fres = NoFres /\ \E m \in AggSnapshots : ScoreSnapshot(m)

NextFund == ScoreMissing \/ ScoreProfit \/ ScorePair \/ ScoreHealth \/ ScoreAgg

SpecFund == InitFund /\ [][NextFund]_vars

----------------------------------------------------------------------------
(* Claims about the fundamentals scorer, checked under SpecFund. *)

\* a field that is absent, null or a string float() rejects
IsMissing(x) == x.t \in {"absent", "None", "str", "estr"}
\* a field holding a number, as a number or as a numeric string
IsNumber(x) == x.t \in {"num", "numstr"}
\* a value the scorer holds after parsing: a float, or None for unknown
Known(x) == x.t = "num"

AllMissing(m) == \A f \in Fields : IsMissing(m[f])

CountOf(sig, s) == Cardinality({i \in 1..4 : sig[i] = s})
MaxOf(a, b) == IF a > b THEN a ELSE b

\* C1 as stated: with every field missing the result is neutral at 0%, no
\* rubric contributing a bullish or a bearish sub-signal.
C1_AllMissingNeutral ==
    (fres.ran /\ AllMissing(metrics)) =>
        /\ fres.signal = "neutral"
        /\ fres.confidence = 0
        /\ CountOf(fres.signals, "bullish") = 0
        /\ CountOf(fres.signals, "bearish") = 0

\* C1 amended: with every field missing each rubric scores 0 and is bearish, so
\* the result is bearish at 100% (0 bullish, 4 bearish sub-signals).
C1_AllMissingBearish ==
    (fres.ran /\ AllMissing(metrics)) =>
        /\ fres.signals = <<"bearish", "bearish", "bearish", "bearish">>
        /\ fres.signal = "bearish"
        /\ fres.confidence = 100

C1_Witness ==
    /\ fres.ran
    /\ AllMissing(metrics)
    /\ \E f, g \in Fields : metrics[f] = None /\ metrics[g] = Str

GrowthFields ==
    {"revenue_growth", "QuarterlyRevenueGrowthYOY", "earnings_growth",
     "QuarterlyEarningsGrowthYOY", "book_value_growth"}
HealthFields ==
    {"current_ratio", "CurrentRatio", "debt_to_equity", "DebtToEquityRatio",
     "free_cash_flow_per_share", "earnings_per_share"}
ValuationFields ==
    {"price_to_earnings_ratio", "PERatio", "price_to_book_ratio",
     "PriceToBookRatio", "price_to_sales_ratio", "PriceToSalesRatioTTM"}

\* ROE 0.20, net margin 0.25, operating margin 0.18 are the values scored and
\* no field of the three other rubrics is present
ProfitOnly ==
    /\ fres.ran
    /\ fres.roe = Num(Q(1, 5))
    /\ fres.net_margin = Num(Q(1, 4))
    /\ fres.operating_margin = Num(Q(9, 50))
    /\ \A f \in GrowthFields \cup HealthFields \cup ValuationFields :
           IsMissing(metrics[f])

\* C2 as stated: profitability alone passing gives profitability bullish and an
\* overall bullish result at 25%.
C2_ProfitOnlyBullish25 ==
    ProfitOnly =>
        /\ fres.signals[1] = "bullish"
        /\ fres.signal = "bullish"
        /\ fres.confidence = 25

\* C2 amended: profitability is bullish, the three empty rubrics score 0 and are
\* bearish, so the overall result is bearish at 75%.
C2_ProfitOnlyBearish75 ==
    ProfitOnly =>
        /\ fres.signals = <<"bullish", "bearish", "bearish", "bearish">>
        /\ fres.signal = "bearish"
        /\ fres.confidence = 75

C2_Witness ==
    /\ ProfitOnly
    /\ metrics["net_margin"] = Absent
    /\ metrics["return_on_equity"] = Absent

\* C3: the overall signal is the majority of bullish against bearish sub-signals
\* (neutral ones counting for neither side, a tie giving neutral) and the
\* confidence is 25 * max(bullish-count, bearish-count), one of 0, 25, .., 100.
C3_MajorityVote ==
    fres.ran =>
        LET b == CountOf(fres.signals, "bullish")
            s == CountOf(fres.signals, "bearish")
        IN  /\ (fres.signal = "bullish") <=> (b > s)
            /\ (fres.signal = "bearish") <=> (s > b)
            /\ (fres.signal = "neutral") <=> (b = s)
            /\ fres.confidence = 25 * MaxOf(b, s)
            /\ fres.confidence \in {0, 25, 50, 75, 100}

C3_Witness ==
    /\ fres.ran
    /\ CountOf(fres.signals, "bullish") = 2
    /\ CountOf(fres.signals, "bearish") = 1
    /\ CountOf(fres.signals, "neutral") = 1
    /\ fres.signal = "bullish"
    /\ fres.confidence = 50

\* the number a field holds, None when it holds none
NumberOf(x) == IF IsNumber(x) THEN Num(x.v) ELSE None

\* net_income / revenue when both are numbers and revenue is not zero
DerivedMargin(income, revenue) ==
    IF IsNumber(income) /\ IsNumber(revenue) /\ revenue.v # Zero
    THEN Num(RDiv(income.v, revenue.v))
    ELSE None

\* C7: with no direct net_margin field the net margin scored is
\* net_income / RevenueTTM for every numeric net_income and numeric non-zero
\* revenue, and unknown (no point earned) when revenue is zero or a component is
\* missing or non-numeric.
C7_NetMarginFallback ==
    (fres.ran /\ metrics["net_margin"] = Absent) =>
        LET expected == DerivedMargin(metrics["net_income"], metrics["RevenueTTM"])
        IN  /\ fres.net_margin = expected
            /\ (expected = None) =>
                   fres.profitability_score
                       = B2N(AndGt(fres.roe, RoeMin))
                         + B2N(AndGt(fres.operating_margin, OpMarginMin))

\* the first candidate that yields a number, None when none does
FirstNumber(canonical, other) ==
    IF IsNumber(canonical) THEN Num(canonical.v) ELSE other

\* C8: each metric with two names is read from the canonical field whenever that
\* holds a number (0 included), from the alternate (or, for the two margins, the
\* derived ratio) only otherwise, and is unknown only when no candidate yields a
\* number.
C8_CanonicalPreferred ==
    fres.ran =>
        LET m == metrics
            Two(c, a) == FirstNumber(m[c], NumberOf(m[a]))
        IN  /\ fres.roe = Two("return_on_equity", "ReturnOnEquityTTM")
            /\ fres.revenue_growth = Two("revenue_growth", "QuarterlyRevenueGrowthYOY")
            /\ fres.earnings_growth
                   = Two("earnings_growth", "QuarterlyEarningsGrowthYOY")
            /\ fres.current_ratio = Two("current_ratio", "CurrentRatio")
            /\ fres.debt_to_equity = Two("debt_to_equity", "DebtToEquityRatio")
            /\ fres.pe_ratio = Two("price_to_earnings_ratio", "PERatio")
            /\ fres.pb_ratio = Two("price_to_book_ratio", "PriceToBookRatio")
            /\ fres.ps_ratio = Two("price_to_sales_ratio", "PriceToSalesRatioTTM")
            /\ fres.net_margin
                   = FirstNumber(m["net_margin"],
                                 DerivedMargin(m["net_income"], m["RevenueTTM"]))
            /\ fres.operating_margin
                   = FirstNumber(m["operating_margin"],
                                 DerivedMargin(m["operating_income"], m["RevenueTTM"]))

\* C9: the financial-health score is the number of checks that hold on the values
\* scored (current ratio known and > 1.5; debt-to-equity known and < 0.5; FCF per
\* share and EPS known and FCF per share > 0.8 * EPS), a known 0 compared as the
\* number 0, and the sub-signal is bullish at >= 2, bearish at 0, else neutral.
C9_HealthScoreCounts ==
    fres.ran =>
        LET cr == fres.current_ratio
            de == fres.debt_to_equity
            fcf == fres.fcf_per_share
            eps == fres.eps
            score ==
                B2N(Known(cr) /\ RGt(cr.v, Q(3, 2)))
                + B2N(Known(de) /\ RLt(de.v, Q(1, 2)))
                + B2N(Known(fcf) /\ Known(eps)
                      /\ 5 * fcf.v[1] * eps.v[2] > 4 * eps.v[1] * fcf.v[2])
        IN  /\ fres.health_score = score
            /\ fres.signals[3]
                   = (IF score >= 2 THEN "bullish"
                      ELSE IF score = 0 THEN "bearish" ELSE "neutral")

----------------------------------------------------------------------------
(* sentiment_agent *)

\* pd.Series([...]).dropna(): None (a missing key gives None too) is dropped,
\* every other value stays, strings included
DropNa(values) == SelectSeq(values, LAMBDA x : x.t \notin {"absent", "None"})

\* np.where(transaction_shares < 0, "bearish", "bullish")
Classify_ZeroBearish(x) == IF x.v[1] <= 0 THEN "bearish" ELSE "bullish"

Classify(x) == IF x.v[1] < 0 THEN "bearish" ELSE "bullish"

NoSignal == [ran |-> TRUE, raised |-> TRUE, signal |-> "none", confidence |-> 0,
             reasoning |-> "none", bullish_signals |-> 0, bearish_signals |-> 0,
             total_signals |-> 0]

\* the whole of sentiment_agent on data["insider_trades"], given as the list
\* of the transactions' transaction_shares values
sentiment_agent(insider_trades) ==
    LET transaction_shares == DropNa(insider_trades)
    IN  IF transaction_shares = <<>>
        THEN [ran |-> TRUE, raised |-> FALSE, signal |-> "neutral",
              confidence |-> PyRound(0, 1), reasoning |-> "nodata",
              bullish_signals |-> 0, bearish_signals |-> 0, total_signals |-> 0]
        ELSE IF \E i \in DOMAIN transaction_shares : transaction_shares[i].t # "num"
        \* a Series holding a str has dtype object, and `< 0` on it raises
        \* TypeError ('<' not supported between 'str' and 'int')
        THEN NoSignal
        ELSE LET signals ==
                     [i \in DOMAIN transaction_shares |->
                         Classify(transaction_shares[i])]
                 bullish_signals == Count(signals, "bullish")
                 bearish_signals == Count(signals, "bearish")
             IN  [ran |-> TRUE, raised |-> FALSE,
                  signal |-> Majority(bullish_signals, bearish_signals),
                  confidence |->
                      Confidence(bullish_signals, bearish_signals, Len(signals)),
                  reasoning |-> "counts",
                  bullish_signals |-> bullish_signals,
                  bearish_signals |-> bearish_signals,
                  total_signals |-> Len(signals)]

\* the share values of a transaction: missing, null, a string, a signed count
MixedShares ==
    {Absent, None, Str, Num(Q(-100, 1)), Num(Q(-5, 1)), Num(Zero), Num(Q(50, 1))}

\* signed share counts only
NumericShares == {Num(Q(-5, 1)), Num(Zero), Num(Q(50, 1))}

InitSent ==
    /\ metrics = NoMetrics
    /\ fres = NoFres
    /\ trades = <<>>
    /\ sres = NoSres
    /\ cache = EmptyCache
    /\ fetched = NoFetch

\* sentiment_agent(state) on data.get("insider_trades", [])
SentimentAgent ==
    /\ sres = NoSres
    /\ sres' = sentiment_agent(trades)
    /\ UNCHANGED <<metrics, fres, trades, cache, fetched>>

\* sentiment_agent called with a list of transactions of every kind of share
\* value
ScoreMixedTrades ==
    /\ sres = NoSres
    /\ \E k \in 0..MaxTrades : \E l \in [1..k -> MixedShares] :
        /\ trades' = l
        /\ sres' = sentiment_agent(l)
        /\ UNCHANGED <<metrics, fres, cache, fetched>>

\* sentiment_agent called with a longer list of signed share counts
ScoreNumericTrades ==
    /\ sres = NoSres
    /\ \E k \in 0..MaxNumericTrades : \E l \in [1..k -> NumericShares] :
        /\ trades' = l
        /\ sres' = sentiment_agent(l)
        /\ UNCHANGED <<metrics, fres, cache, fetched>>

NextSent == ScoreMixedTrades \/ ScoreNumericTrades

SpecSent == InitSent /\ [][NextSent]_vars

----------------------------------------------------------------------------
(* Claims about the sentiment scorer, checked under SpecSent. *)

\* the transactions with a parsable signed share count
Filtered(values) == SelectSeq(values, IsNumber)

NumberBelowZero(values) ==
    Cardinality({i \in DOMAIN values : IsNumber(values[i]) /\ values[i].v[1] < 0})
NumberAtLeastZero(values) ==
    Cardinality({i \in DOMAIN values : IsNumber(values[i]) /\ values[i].v[1] >= 0})

\* C4: when no transaction has a parsable signed share count (empty list, or
\* every transaction_shares absent, null or non-numeric) the scorer returns
\* neutral, confidence 0 and the no-data reasoning, and does not raise.
C4_NoParsableIsNoData ==
    (sres.ran /\ Filtered(trades) = <<>>) =>
        /\ ~sres.raised
        /\ sres.signal = "neutral"
        /\ sres.confidence = 0
        /\ sres.reasoning = "nodata"

\* the list left after dropping the missing values is not empty and holds only
\* signed share counts: the filtered list the scorer classifies
Scored ==
    /\ sres.ran
    /\ Filtered(trades) # <<>>
    /\ \A i \in DOMAIN trades : IsNumber(trades[i]) \/ trades[i] \in {Absent, None}

\* C5: on a non-empty filtered list every share count < 0 counts bearish and
\* every share count >= 0 (zero included) bullish, the two counts add up to the
\* filtered count, and the signal is bullish / bearish by the larger count,
\* neutral on a tie.
C5_Classification ==
    Scored =>
        LET b == NumberAtLeastZero(trades)
            s == NumberBelowZero(trades)
        IN  /\ ~sres.raised
            /\ sres.bullish_signals = b
            /\ sres.bearish_signals = s
            /\ sres.bullish_signals + sres.bearish_signals = Len(Filtered(trades))
            /\ (sres.signal = "bullish") <=> (b > s)
            /\ (sres.signal = "bearish") <=> (s > b)
            /\ (sres.signal = "neutral") <=> (b = s)

\* shares [-100, 50, 0, -5]: 2 bullish, 2 bearish, neutral at 50%
C5_Witness ==
    /\ Scored
    /\ trades = <<Num(Q(-100, 1)), Num(Q(50, 1)), Num(Zero), Num(Q(-5, 1))>>
    /\ sres.bullish_signals = 2
    /\ sres.bearish_signals = 2
    /\ sres.signal = "neutral"
    /\ sres.confidence = 50

\* C6 as stated: the confidence is max(bullish, bearish) / total as an integer
\* percentage rounded half up (5 of 8 = 62.5% gives 63).
C6_RoundHalfUp ==
    Scored =>
        LET n == 100 * MaxOf(NumberAtLeastZero(trades), NumberBelowZero(trades))
            d == Len(Filtered(trades))
        IN  /\ 2 * sres.confidence * d <= 2 * n + d
            /\ 2 * n + d < 2 * (sres.confidence + 1) * d

\* C6 amended: the confidence is that percentage rounded to the nearest integer,
\* a tie (an exact .5) going to the even integer (5 of 8 gives 62, 7 of 8 gives 88).
C6_RoundHalfEven ==
    Scored =>
        LET n == 100 * MaxOf(NumberAtLeastZero(trades), NumberBelowZero(trades))
            d == Len(Filtered(trades))
            c == sres.confidence
        IN  /\ 2 * Abs(n - c * d) <= d
            /\ (2 * Abs(n - c * d) = d) => (c % 2 = 0)

C6_Witness ==
    /\ Scored
    /\ Len(trades) = 8
    /\ sres.bullish_signals = 5
    /\ sres.bearish_signals = 3
    /\ sres.confidence = 62

----------------------------------------------------------------------------
(* cached_request and the fetch functions of tools/api.py *)

\* default of get_insider_trades' limit parameter
DefaultLimit == 5

Tickers == {"AAPL", "MSFT"}
EndDates == {"2024-06-30"}

\* cache_key of get_financial_metrics / get_insider_trades; the md5 file name
\* made from it is taken to be as distinct as the key
MetricsKey(ticker) == <<"financial_metrics", ticker>>
TradesKey(ticker, end_date) == <<"insider_trades", ticker, end_date>>

\* JSON bodies: the rate-limit message {"Information": "... Our standard API
\* rate limit ..."}, an OVERVIEW object, an insider-transactions object with a
\* "data" list, an object without "data"; NoneBody is Python None
Body(kind, snap, data) == [kind |-> kind, snap |-> snap, data |-> data]
NoneBody == Body("None", NoMetrics, <<>>)
RateLimitBody == Body("ratelimit", NoMetrics, <<>>)
NoDataBody == Body("nodata", NoMetrics, <<>>)

OverviewBodies ==
    {Body("overview", Snap([ReturnOnEquityTTM |-> NumStr(Q(1, 5)),
                            RevenueTTM |-> NumStr(Q(1000, 1)),
                            PERatio |-> NumStr(Q(20, 1)),
                            PriceToBookRatio |-> NumStr(Q(2, 1))]), <<>>),
     Body("overview", Snap([ReturnOnEquityTTM |-> Str, PERatio |-> Str]), <<>>)}

TradesBodies ==
    {Body("trades", NoMetrics, <<>>),
     Body("trades", NoMetrics,
          <<Num(Q(50, 1)), None, Num(Q(-5, 1)), Num(Zero), Num(Q(50, 1)),
            Num(Q(-5, 1))>>)}

Statuses == {200, 500}

Responses(bodies) == [status : Statuses, body : bodies \cup {RateLimitBody}]

\* cached_request that returns None on the rate-limit message without the
\* pickle.dump(None, f) of line 41
cached_request_SentinelNotCached(c, cache_key, resp) ==
    IF cache_key \in DOMAIN c
    THEN [cache |-> c, raised |-> FALSE, ret |-> c[cache_key], http |-> FALSE]
    ELSE IF resp.status # 200
    THEN [cache |-> c, raised |-> TRUE, ret |-> NoneBody, http |-> TRUE]
    ELSE IF resp.body.kind = "ratelimit"
    THEN [cache |-> c, raised |-> FALSE, ret |-> NoneBody, http |-> TRUE]
    ELSE [cache |-> (cache_key :> resp.body) @@ c, raised |-> FALSE,
          ret |-> resp.body, http |-> TRUE]

\* cached_request(url, cache_key) when requests.get(url) would answer resp:
\* the cache after the call, whether it raised, what it returned, whether the
\* HTTP request was issued
cached_request(c, cache_key, resp) ==
    IF cache_key \in DOMAIN c
    THEN [cache |-> c, raised |-> FALSE, ret |-> c[cache_key], http |-> FALSE]
    ELSE IF resp.status # 200
    THEN [cache |-> c, raised |-> TRUE, ret |-> NoneBody, http |-> TRUE]
    ELSE IF resp.body.kind = "ratelimit"
    THEN [cache |-> (cache_key :> NoneBody) @@ c, raised |-> FALSE,
          ret |-> NoneBody, http |-> TRUE]
    ELSE [cache |-> (cache_key :> resp.body) @@ c, raised |-> FALSE,
          ret |-> resp.body, http |-> TRUE]

Fetched(fn, key, r, exc) ==
    [fn |-> fn, key |-> key, http |-> r.http, ret |-> r.ret,
     sentinel |-> (~r.raised /\ r.ret = NoneBody), exc |-> exc]

\* data[:limit]
Take(data, limit) ==
    SubSeq(data, 1, IF Len(data) < limit THEN Len(data) ELSE limit)

\* get_financial_metrics(ticker, ...); its list becomes data["financial_metrics"],
\* whose element 0 fundamentals_agent reads
GetFinancialMetrics(ticker, resp) ==
    LET key == MetricsKey(ticker)
        r == cached_request(cache, key, resp)
    IN  /\ cache' = r.cache
        /\ IF r.raised
           THEN /\ fetched' = Fetched("get_financial_metrics", key, r, "Exception")
                /\ UNCHANGED <<metrics, fres>>
           ELSE /\ fetched' = Fetched("get_financial_metrics", key, r, "none")
                \* [{"Error": ...}] holds none of the fields the scorer reads
                /\ metrics' = IF r.ret = NoneBody \/ r.ret.kind # "overview"
                              THEN [f \in Fields |-> Absent]
                              ELSE r.ret.snap
                /\ fres' = NoFres
        /\ UNCHANGED <<trades, sres>>

\* get_insider_trades(ticker, end_date); its list becomes data["insider_trades"]
GetInsiderTrades(ticker, end_date, resp) ==
    LET key == TradesKey(ticker, end_date)
        r == cached_request(cache, key, resp)
    IN  /\ cache' = r.cache
        /\ IF r.raised
           THEN /\ fetched' = Fetched("get_insider_trades", key, r, "Exception")
                /\ UNCHANGED <<trades, sres>>
           ELSE IF r.ret = NoneBody
           \* `"data" not in data` on None: argument of type 'NoneType' is not iterable
           THEN /\ fetched' = Fetched("get_insider_trades", key, r, "TypeError")
                /\ UNCHANGED <<trades, sres>>
           ELSE IF r.ret.kind # "trades"
           THEN /\ fetched' = Fetched("get_insider_trades", key, r, "ValueError")
                /\ UNCHANGED <<trades, sres>>
           ELSE /\ fetched' = Fetched("get_insider_trades", key, r, "none")
                /\ trades' = Take(r.ret.data, DefaultLimit)
                /\ sres' = NoSres
        /\ UNCHANGED <<metrics, fres>>

InitFetch ==
    /\ metrics = NoMetrics
    /\ fres = NoFres
    /\ trades = <<>>
    /\ sres = NoSres
    /\ cache = EmptyCache
    /\ fetched = NoFetch

NextFetch ==
    \/ \E t \in Tickers, resp \in Responses(OverviewBodies) :
           GetFinancialMetrics(t, resp)
    \/ \E t \in Tickers, d \in EndDates,
          resp \in Responses(TradesBodies \cup {NoDataBody}) :
           GetInsiderTrades(t, d, resp)
    \/ FundamentalsAgent
    \/ SentimentAgent

SpecFetch == InitFetch /\ [][NextFetch]_vars

----------------------------------------------------------------------------
(* Claims about the fetch paths, checked under SpecFetch. *)

\* C10: on both fetch paths that feed a scorer a rate-limit sentinel (None) from
\* cached_request, fresh or read back from the cache, is consumed as no data
\* (all fields absent / no transactions) and raises nothing.
C10_SentinelIsNoData ==
    (fetched.fn # "none" /\ fetched.sentinel) =>
        /\ fetched.exc = "none"
        /\ (fetched.fn = "get_financial_metrics") =>
               /\ \A f \in Fields : metrics[f] = Absent
               /\ fres.ran => fres = fundamentals_agent([f \in Fields |-> Absent])
        /\ (fetched.fn = "get_insider_trades") =>
               /\ trades = <<>>
               /\ sres.ran => (~sres.raised /\ sres.reasoning = "nodata")

----------------------------------------------------------------------------
(* cached_request called directly, in any order, over the keys its callers *)
(* build.                                                                  *)

CacheKeys ==
    {MetricsKey(t) : t \in Tickers}
    \cup {TradesKey(t, d) : t \in Tickers, d \in EndDates}

CacheResponses == Responses(OverviewBodies \cup TradesBodies \cup {NoDataBody})

\* what one call did: its key, the answer requests.get(url) had for it, whether
\* the request was issued, the value returned, the exception raised
Called(cache_key, resp, r) ==
    [fn |-> "cached_request", key |-> cache_key, resp |-> resp, http |-> r.http,
     ret |-> r.ret, sentinel |-> (~r.raised /\ r.ret = NoneBody),
     exc |-> IF r.raised THEN "Exception" ELSE "none"]

CachedRequest(cache_key, resp) ==
    LET r == cached_request(cache, cache_key, resp)
    IN  /\ cache' = r.cache
        /\ fetched' = Called(cache_key, resp, r)
        /\ UNCHANGED <<metrics, fres, trades, sres>>

InitCache ==
    /\ metrics = NoMetrics
    /\ fres = NoFres
    /\ trades = <<>>
    /\ sres = NoSres
    /\ cache = EmptyCache
    /\ fetched = NoFetch

NextCache == \E k \in CacheKeys, resp \in CacheResponses : CachedRequest(k, resp)

SpecCache == InitCache /\ [][NextCache]_vars

----------------------------------------------------------------------------
(* Claims about the cache, checked under SpecCache. *)

\* the value a 200 response stores: None for the rate-limit message, else the payload
StoredFor(resp) == IF resp.body.kind = "ratelimit" THEN NoneBody ELSE resp.body

\* one call, from the cache before it to the cache after it
CacheStep ==
    LET k == fetched'.key
        resp == fetched'.resp
    IN  \* no entry is evicted or overwritten, by a call for its key or another
        /\ \A j \in DOMAIN cache : j \in DOMAIN cache' /\ cache'[j] = cache[j]
        /\ DOMAIN cache' \subseteq DOMAIN cache \cup {k}
        \* a hit returns the stored value and issues no request
        /\ (k \in DOMAIN cache) =>
               /\ ~fetched'.http
               /\ fetched'.exc = "none"
               /\ fetched'.ret = cache[k]
               /\ cache' = cache
        \* a miss answered 200 stores the payload (None for the rate-limit
        \* message) under k and returns it
        /\ (k \notin DOMAIN cache /\ resp.status = 200) =>
               /\ fetched'.http
               /\ fetched'.exc = "none"
               /\ fetched'.ret = StoredFor(resp)
               /\ k \in DOMAIN cache'
               /\ cache'[k] = StoredFor(resp)
        \* a miss answered otherwise raises and stores nothing, so k is still a
        \* miss for the next call
        /\ (k \notin DOMAIN cache /\ resp.status # 200) =>
               /\ fetched'.http
               /\ fetched'.exc = "Exception"
               /\ cache' = cache
               /\ k \notin DOMAIN cache'

\* C11: in any sequence of cached_request calls, a call answered 200 stores its
\* payload (None for the rate-limit message) under its key; the entry is never
\* evicted or overwritten, neither by later calls for that key, which return it
\* without an HTTP request, nor by calls for other keys; a call answered with
\* another status raises and leaves the cache unchanged, so the next call for
\* the key fetches again.
C11_CacheWriteOnce == [][CacheStep]_vars

\* a later call for a key whose 200 rate-limit answer was stored: the provider
\* now has a payload, the call returns the stored None without a request, and
\* the entries of two other keys are still there
C11_Witness ==
    /\ fetched.fn = "cached_request"
    /\ fetched.resp.status = 200
    /\ fetched.resp.body.kind = "overview"
    /\ ~fetched.http
    /\ fetched.exc = "none"
    /\ fetched.ret = NoneBody
    /\ cache[fetched.key] = NoneBody
    /\ Cardinality(DOMAIN cache) >= 3

====
